---- MODULE Spec2Model ----
(***************************************************************************)
(* A model of the `frames` shell tool (src/src/shell_tools/frames.py and   *)
(* src/src/shell_tools/top_level_functions.py).                            *)
(*                                                                         *)
(* Strings are sequences of one-character strings, so that widths,         *)
(* prefixes and padding are computed rather than assumed.  A fileseq frame *)
(* range string such as "7-11x2,12" is a sequence of parts, each part the  *)
(* record [start, stop, stride] that the text "start-stopxstride" denotes. *)
(***************************************************************************)
EXTENDS Integers, Sequences, FiniteSets, TLC

VARIABLES pc, tool, argv, disk, loaded, content, result, stdout, stderr, exit_code

vars == <<pc, tool, argv, disk, loaded, content, result, stdout, stderr, exit_code>>

(***************************************************************************)
(* Bounds of the model.                                                    *)
(***************************************************************************)
FrameBase == 7
MaxSpan == 5
MaxGroups == 2
MaxContent == 3

FrameNumbers == FrameBase .. (FrameBase + MaxSpan)

(***************************************************************************)
(* Generic helpers on sequences.                                           *)
(***************************************************************************)
Max(a, b) == IF a >= b THEN a ELSE b

SetMin(S) == CHOOSE x \in S : \A y \in S : x <= y

RECURSIVE SortedSeq(_)
SortedSeq(S) == IF S = {} THEN <<>>
                ELSE LET m == SetMin(S) IN <<m>> \o SortedSeq(S \ {m})

RECURSIVE Spaces(_)
Spaces(n) == IF n <= 0 THEN <<>> ELSE <<" ">> \o Spaces(n - 1)

RECURSIVE Concat(_)
Concat(ss) == IF ss = <<>> THEN <<>> ELSE Head(ss) \o Concat(Tail(ss))

Range(s) == {s[i] : i \in 1..Len(s)}

(***************************************************************************)
(* Python str of a non-negative int, and the format specs {n:>w}, {n:<w}.  *)
(***************************************************************************)
Digit(d) == <<"0", "1", "2", "3", "4", "5", "6", "7", "8", "9">>[d + 1]

RECURSIVE Str(_)
Str(n) == IF n < 10 THEN <<Digit(n)>> ELSE Str(n \div 10) \o <<Digit(n % 10)>>

RightJustify(s, w) == Spaces(w - Len(s)) \o s

LeftJustify(s, w) == s \o Spaces(w - Len(s))

startswith(s, p) == /\ Len(p) <= Len(s)
                    /\ SubSeq(s, 1, Len(p)) = p

(***************************************************************************)
(* fileseq.FrameSet, as far as frames.py uses it.                          *)
(***************************************************************************)
Part(start, stop, stride) ==
    IF start = stop THEN [start |-> start, stop |-> start, stride |-> 1]
    ELSE [start |-> start, stop |-> stop, stride |-> stride]

\* FrameSet.framesToFrameRanges: the loop over the frames after the first;
\* a stride of 0 stands for curr_stride = None.
RECURSIVE FrangeLoop(_, _, _, _, _, _)
FrangeLoop(frames, i, curr_start, curr_stride, curr_count, acc) ==
    LET last == frames[i - 1] IN
    IF i > Len(frames)
    THEN IF curr_count = 2 /\ curr_stride # 1
         THEN acc \o <<Part(curr_start, curr_start, 1), Part(last, last, 1)>>
         ELSE acc \o <<Part(curr_start, last, curr_stride)>>
    ELSE LET f == frames[i]
             stride == IF curr_stride = 0 THEN f - curr_start ELSE curr_stride
             new_stride == f - last
         IN  IF stride = new_stride
             THEN FrangeLoop(frames, i + 1, curr_start, stride, curr_count + 1, acc)
             ELSE IF curr_count = 2 /\ stride # 1
             THEN FrangeLoop(frames, i + 1, last, new_stride, curr_count,
                             acc \o <<Part(curr_start, curr_start, 1)>>)
             ELSE FrangeLoop(frames, i + 1, f, 0, 1,
                             acc \o <<Part(curr_start, last, stride)>>)

\* FrameSet.framesToFrameRange of an ascending list of frames; '' is <<>>.
framesToFrameRange(frames) ==
    IF frames = <<>> THEN <<>> ELSE FrangeLoop(frames, 2, frames[1], 0, 1, <<>>)

\* The frames one part of a frame range string denotes, in order.
RECURSIVE PartFrames(_)
PartFrames(p) == IF p.start > p.stop THEN <<>>
                 ELSE <<p.start>> \o PartFrames([p EXCEPT !.start = p.start + p.stride])

NoFrameSet == [none |-> TRUE, frange |-> <<>>, order |-> <<>>]

\* FrameSet(frange): parse a frame range string.
FrameSet(frange) ==
    [none |-> FALSE, frange |-> frange,
     order |-> Concat([i \in 1..Len(frange) |-> PartFrames(frange[i])])]

\* FrameSet(frames): what findSequencesOnDisk builds from the numbers on disk.
FrameSetOf(S) ==
    IF S = {} THEN NoFrameSet
    ELSE [none |-> FALSE, frange |-> framesToFrameRange(SortedSeq(S)),
          order |-> SortedSeq(S)]

\* FrameSet.invertedFrameRange
invertedFrameRange(fs) ==
    LET items == Range(fs.order)
        missing == {n \in SetMin(items) .. fs.order[Len(fs.order)] : n \notin items}
    IN  framesToFrameRange(SortedSeq(missing))

FrameSetStart(fs) == fs.order[1]

FrameSetEnd(fs) == fs.order[Len(fs.order)]

\* bool(seq.frameSet()): None and the empty FrameSet are falsy.
FrameSetTruthy(fs) == ~fs.none /\ Len(fs.order) > 0

\* FileSequence.start(): 0 without a frame set.
SeqStart(seq) == IF FrameSetTruthy(seq.frameSet) THEN FrameSetStart(seq.frameSet) ELSE 0

FileSequence(basename, ext, S) ==
    [basename |-> basename, ext |-> ext, frameSet |-> FrameSetOf(S)]

(***************************************************************************)
(* frames.py: the Content classes.                                         *)
(***************************************************************************)
KNOWN_IMAGE_ESSENCE_CONTAINER_EXTENSIONS ==
    { <<".", "m", "o", "v">>, <<".", "m", "x", "f">>, <<".", "a", "r", "i">>,
      <<".", "d", "p", "x">>, <<".", "e", "x", "r">>, <<".", "t", "i", "f">>,
      <<".", "t", "i", "f", "f">>, <<".", "p", "n", "g">>, <<".", "c", "i", "n">>,
      <<".", "h", "e", "i", "f">> }

has_container_extension(seq) == seq.ext \in KNOWN_IMAGE_ESSENCE_CONTAINER_EXTENSIONS

SequencedFrames(seq, variant) ==
    [kind |-> "SequencedFrames", seq |-> seq,
     is_container |-> has_container_extension(seq), variant |-> variant]

copy_seq(seq, frames) == [seq EXCEPT !.frameSet = FrameSet(frames)]

\* sorted(items, key=lambda x: x.seq.start()): a stable insertion sort.
RECURSIVE InsertByStart(_, _)
InsertByStart(sorted, c) ==
    IF sorted = <<>> THEN <<c>>
    ELSE IF SeqStart(c.seq) < SeqStart(Head(sorted).seq)
         THEN <<c>> \o sorted
         ELSE <<Head(sorted)>> \o InsertByStart(Tail(sorted), c)

RECURSIVE SortedByStart(_)
SortedByStart(items) ==
    IF items = <<>> THEN <<>>
    ELSE InsertByStart(SortedByStart(SubSeq(items, 1, Len(items) - 1)),
                       items[Len(items)])

unwrapped_sequences(seq) ==
    LET run_frames == seq.frameSet.frange
        gap_frames == invertedFrameRange(seq.frameSet)
        run_seqs == [i \in 1..Len(run_frames) |->
                        SequencedFrames(copy_seq(seq, <<run_frames[i]>>), "RUN")]
        gap_seqs == [i \in 1..Len(gap_frames) |->
                        SequencedFrames(copy_seq(seq, <<gap_frames[i]>>), "GAP")]
    IN  SortedByStart(run_seqs \o gap_seqs)

bounds(c) == <<FrameSetStart(c.seq.frameSet), FrameSetEnd(c.seq.frameSet)>>

UnsequencedFrame(seq) ==
    [kind |-> "UnsequencedFrame", seq |-> seq,
     is_container |-> has_container_extension(seq), variant |-> "NONE"]

\* Debris.__init__ calls Content.__init__ without is_container: the default, False.
Debris(seq) ==
    [kind |-> "Debris", seq |-> seq, is_container |-> FALSE, variant |-> "NONE"]

is_sequence_variant(c, variant) ==
    CASE c.kind = "SequencedFrames" -> variant = "RUN"
      [] c.kind = "UnsequencedFrame" -> variant = "GAP"
      [] c.kind = "Debris" -> FALSE

\* The text of one part of a frame range string, and str(FrameSet).
PartText(p) ==
    IF p.start = p.stop THEN Str(p.start)
    ELSE IF p.stride = 1 THEN Str(p.start) \o <<"-">> \o Str(p.stop)
    ELSE Str(p.start) \o <<"-">> \o Str(p.stop) \o <<"x">> \o Str(p.stride)

RECURSIVE FrangeText(_)
FrangeText(frange) ==
    IF frange = <<>> THEN <<>>
    ELSE IF Len(frange) = 1 THEN PartText(frange[1])
    ELSE PartText(frange[1]) \o <<",">> \o FrangeText(Tail(frange))

\* str(seq.frameSet()): "None" when the sequence has no frame set.
StrFrameSet(fs) == IF fs.none THEN <<"N", "o", "n", "e">> ELSE FrangeText(fs.frange)

\* bounds_and_count_widths with an UnsequencedFrame reporting no width, as
\* Debris does.
bounds_and_count_widths_blank_unsequenced(c) ==
    CASE c.kind = "SequencedFrames" ->
           LET start == bounds(c)[1]
               end == bounds(c)[2]
           IN  <<Len(Str(start)), Len(Str(end)), Len(Str(1 + end - start))>>
      [] c.kind = "UnsequencedFrame" -> <<0, 0, 0>>
      [] c.kind = "Debris" -> <<0, 0, 0>>

bounds_and_count_widths(c) ==
    CASE c.kind = "SequencedFrames" ->
           LET start == bounds(c)[1]
               end == bounds(c)[2]
           IN  <<Len(Str(start)), Len(Str(end)), Len(Str(1 + end - start))>>
      [] c.kind = "UnsequencedFrame" ->
           LET frame_width == Len(StrFrameSet(c.seq.frameSet))
           IN  <<frame_width, frame_width, frame_width>>
      [] c.kind = "Debris" -> <<0, 0, 0>>

nuke_format_spec(c, frame_number_width) ==
    LET frame_spec == IF frame_number_width # 0
                      THEN <<"%", "0">> \o Str(frame_number_width) \o <<"d">>
                      ELSE <<>>
    IN  c.seq.basename \o frame_spec \o c.seq.ext

\* BlenderColors: each escape sequence is one token of a line.
OKBLUE == "ESC[94m"

OKGREEN == "ESC[92m"

WARNING == "ESC[93m"

FAIL == "ESC[91m"

ENDC == "ESC[0m"

formatted_str(c, start_width, end_width, count_width) ==
    CASE c.kind = "SequencedFrames" ->
           LET start == bounds(c)[1]
               end == bounds(c)[2]
               start_color == IF c.variant = "RUN" THEN OKGREEN ELSE FAIL
           IN  RightJustify(Str(start), start_width) \o <<"-">>
               \o LeftJustify(Str(end), end_width)
               \o <<"|", " ">> \o LeftJustify(Str(1 + end - start), count_width)
               \o <<" ">> \o <<start_color>>
               \o nuke_format_spec(c, end_width - 1) \o <<ENDC>>
      [] c.kind = "UnsequencedFrame" ->
           LET left_margin == start_width + 1 + end_width
           IN  Spaces(left_margin) \o <<" ", " ">>
               \o RightJustify(<<" ">>, count_width) \o <<" ">>
               \o <<OKBLUE>> \o nuke_format_spec(c, 0) \o <<ENDC>>
      [] c.kind = "Debris" ->
           LET left_margin == start_width + 1 + end_width + 2 + count_width
           IN  Spaces(left_margin) \o <<" ">>
               \o <<WARNING>> \o nuke_format_spec(c, 0) \o <<ENDC>>

\* max() of a non-empty tuple of ints.
RECURSIVE MaxOf(_)
MaxOf(xs) == IF Len(xs) = 1 THEN xs[1] ELSE Max(xs[1], MaxOf(Tail(xs)))

\* col_widths taking the widths of the first item for those of the list.
col_widths_of_first(c) == bounds_and_count_widths(c[1])

\* ContentFormatter.col_widths; the unpacking of zip(*widths) raises
\* ValueError on an empty list, which the callers model by their guard.
col_widths(c) ==
    LET widths == [i \in 1..Len(c) |-> bounds_and_count_widths(c[i])]
        start_widths == [i \in 1..Len(c) |-> widths[i][1]]
        end_widths == [i \in 1..Len(c) |-> widths[i][2]]
        count_widths == [i \in 1..Len(c) |-> widths[i][3]]
    IN  <<MaxOf(start_widths), MaxOf(end_widths), MaxOf(count_widths)>>

col_widths_raises(c) == c = <<>>

summary_lines(c) ==
    LET w == col_widths(c)
    IN  [i \in 1..Len(c) |-> formatted_str(c[i], w[1], w[2], w[3])]

\* What the interpreter writes for an exception nothing catches.
Traceback(exc) == << <<"Traceback (most recent call last):">>,
                     <<"  File ...">>,
                     <<exc>> >>

(***************************************************************************)
(* frames.py: FramesTool.                                                  *)
(***************************************************************************)
\* FramesTool.__init__: the attributes of a freshly constructed tool.
FramesTool ==
    [dir |-> "None",
     include_sequences |-> TRUE,
     include_gaps |-> TRUE,
     include_debris |-> TRUE,
     sequence_left_substrings |-> <<>>,
     uniqueness_check |-> FALSE,
     print_frame_field_width |-> FALSE,
     print_first |-> FALSE,
     print_last |-> FALSE]

\* ord() of the characters base names are made of, and str.__lt__.
Ord(ch) == CASE ch = "a" -> 97 [] ch = "b" -> 98

RECURSIVE StrLess(_, _)
StrLess(s, t) ==
    IF t = <<>> THEN FALSE
    ELSE IF s = <<>> THEN TRUE
    ELSE IF Ord(Head(s)) # Ord(Head(t)) THEN Ord(Head(s)) < Ord(Head(t))
    ELSE StrLess(Tail(s), Tail(t))

\* sorted(seqs, key=FileSequence.basename): a stable insertion sort.
RECURSIVE InsertByBasename(_, _)
InsertByBasename(sorted, seq) ==
    IF sorted = <<>> THEN <<seq>>
    ELSE IF StrLess(seq.basename, Head(sorted).basename)
         THEN <<seq>> \o sorted
         ELSE <<Head(sorted)>> \o InsertByBasename(Tail(sorted), seq)

RECURSIVE SortedByBasename(_)
SortedByBasename(seqs) ==
    IF seqs = <<>> THEN <<>>
    ELSE InsertByBasename(SortedByBasename(SubSeq(seqs, 1, Len(seqs) - 1)),
                          seqs[Len(seqs)])

classify(seq) ==
    IF FrameSetTruthy(seq.frameSet) THEN unwrapped_sequences(seq)
    ELSE IF seq.ext \in KNOWN_IMAGE_ESSENCE_CONTAINER_EXTENSIONS
         THEN <<UnsequencedFrame(seq)>>
         ELSE <<Debris(seq)>>

\* load_from_dir taking the sequences in the order they were found.
load_from_dir_unsorted(found) ==
    Concat([i \in 1..Len(found) |-> classify(found[i])])

load_from_dir(found) ==
    LET seqs == SortedByBasename(found)
    IN  Concat([i \in 1..Len(seqs) |-> classify(seqs[i])])

\* keep with the prefix filter combined with the include flags instead of
\* replacing them.
keep_combining_filters(t, c) ==
    /\ ~ \E i \in 1..Len(t.sequence_left_substrings) :
             startswith(c.seq.basename, t.sequence_left_substrings[i])
    /\ ~(is_sequence_variant(c, "RUN") /\ ~t.include_sequences)
    /\ ~(is_sequence_variant(c, "GAP") /\ ~t.include_gaps)
    /\ ~(~c.is_container /\ ~t.include_debris)

keep(t, c) ==
    IF t.sequence_left_substrings # <<>>
    THEN ~ \E i \in 1..Len(t.sequence_left_substrings) :
               startswith(c.seq.basename, t.sequence_left_substrings[i])
    ELSE IF is_sequence_variant(c, "RUN") /\ ~t.include_sequences THEN FALSE
    ELSE IF is_sequence_variant(c, "GAP") /\ ~t.include_gaps THEN FALSE
    ELSE IF ~c.is_container /\ ~t.include_debris THEN FALSE
    ELSE TRUE

RECURSIVE Filter(_, _)
Filter(t, cs) ==
    IF cs = <<>> THEN <<>>
    ELSE (IF keep(t, Head(cs)) THEN <<Head(cs)>> ELSE <<>>) \o Filter(t, Tail(cs))

(***************************************************************************)
(* top_level_functions.py: the argument parser.                            *)
(***************************************************************************)
\* The defaults the add_argument calls declare, by dest.
ParserDefaults ==
    [dir |-> "None",
     include_sequences |-> TRUE,
     include_gaps |-> FALSE,
     include_debris |-> FALSE,
     sequence_left_substrings |-> <<>>,
     uniqueness_check |-> FALSE,
     print_frame_field_width |-> FALSE,
     print_first |-> FALSE,
     print_last |-> FALSE]

\* A BooleanOptionalAction stores a value only when its flag is on the
\* command line.
Flag(current, given) == IF given = "absent" THEN current ELSE given = "yes"

\* A store_true action stores True only when its flag is on the command line.
StoreTrue(current, given) == IF given THEN TRUE ELSE current

\* parser.parse_args(argv[1:], namespace=tool): argparse sets a default only
\* for a dest the namespace has no attribute for, then runs the actions of
\* the arguments present.
parse_args(args, namespace) ==
    LET ns == namespace @@ ParserDefaults
    IN  [ns EXCEPT
           !.dir = args.dir,
           !.include_sequences = Flag(@, args.sequences),
           !.include_gaps = Flag(@, args.gaps),
           !.include_debris = Flag(@, args.debris),
           !.sequence_left_substrings = args.substrs,
           !.uniqueness_check = StoreTrue(@, args.mode = "uniqueness_check"),
           !.print_frame_field_width = StoreTrue(@, args.mode = "frame_field_width"),
           !.print_first = StoreTrue(@, args.mode = "first"),
           !.print_last = StoreTrue(@, args.mode = "last")]

(***************************************************************************)
(* Inputs.                                                                 *)
(***************************************************************************)
Names == { <<"a">>, <<"a", "b">>, <<"b">> }

Extensions == { <<".", "e", "x", "r">>, <<".", "t", "x", "t">> }

(***************************************************************************)
(* SpecUnwrap: unwrapped_sequences applied to one numbered sequence.       *)
(***************************************************************************)
InitUnwrap ==
    /\ pc = "unwrap"
    /\ \E n \in Names, e \in Extensions, S \in (SUBSET FrameNumbers) \ {{}} :
           disk = <<FileSequence(n, e, S)>>
    /\ tool = <<>>
    /\ argv = <<>>
    /\ loaded = <<>>
    /\ content = <<>>
    /\ result = "none"
    /\ stdout = <<>>
    /\ stderr = <<>>
    /\ exit_code = 0

Unwrap ==
    /\ pc = "unwrap"
    /\ pc' = "unwrapped"
    /\ content' = unwrapped_sequences(disk[1])
    /\ UNCHANGED <<tool, argv, disk, loaded, result, stdout, stderr, exit_code>>

NextUnwrap == Unwrap

SpecUnwrap == InitUnwrap /\ [][NextUnwrap]_vars

\* The frame numbers of the sequence on disk, and the integers an item spans.
InputFrames == Range(disk[1].frameSet.order)

Span(c) == bounds(c)[1] .. bounds(c)[2]

RunIndexes == {i \in 1..Len(content) : content[i].variant = "RUN"}

GapIndexes == {i \in 1..Len(content) : content[i].variant = "GAP"}

\* C1: the Run and Gap items of a decomposition exactly partition the span
\* [min(S), max(S)]: every integer of the span lies in exactly one item, the
\* Run items cover exactly S and the Gap items exactly the rest of the span.
C1_ExactPartition ==
    pc = "unwrapped" =>
        LET S == InputFrames
            lo == SetMin(S)
            hi == disk[1].frameSet.order[Len(disk[1].frameSet.order)]
        IN  /\ \A n \in lo..hi :
                   Cardinality({i \in 1..Len(content) : n \in Span(content[i])}) = 1
            /\ UNION {Span(content[i]) : i \in RunIndexes} = S
            /\ UNION {Span(content[i]) : i \in GapIndexes} = (lo..hi) \ S

\* C2: the decomposition is strictly increasing by start, alternates
\* Run, Gap, Run, ... from a Run to a Run, every item has start <= end and
\* each item starts one past the end of the item before it.
C2_AlternatingAdjacent ==
    pc = "unwrapped" =>
        /\ Len(content) >= 1
        /\ content[1].variant = "RUN"
        /\ content[Len(content)].variant = "RUN"
        /\ \A i \in 1..Len(content) : bounds(content[i])[1] <= bounds(content[i])[2]
        /\ \A i \in 2..Len(content) :
               /\ content[i].variant # content[i - 1].variant
               /\ bounds(content[i - 1])[1] < bounds(content[i])[1]
               /\ bounds(content[i])[1] = bounds(content[i - 1])[2] + 1
(***************************************************************************)
(* SpecFormat: a ContentFormatter built on a list of Content items, and    *)
(* its summary_lines.                                                      *)
(***************************************************************************)
ShortSeq == FileSequence(<<"a">>, <<".", "e", "x", "r">>,
                         {FrameBase, FrameBase + 1, FrameBase + 4})

LongSeq == FileSequence(<<"b">>, <<".", "t", "x", "t">>,
                        (FrameBase .. (FrameBase + 9)) \cup {FrameBase + 11})

FormatItems ==
    Range(unwrapped_sequences(ShortSeq)) \cup Range(unwrapped_sequences(LongSeq))
    \cup { UnsequencedFrame(FileSequence(<<"a", "b">>, <<".", "m", "o", "v">>, {})),
           Debris(FileSequence(<<"b">>, <<".", "t", "x", "t">>, {})) }

InitFormat ==
    /\ pc = "format"
    /\ \E n \in 0..MaxContent : content \in [1..n -> FormatItems]
    /\ tool = <<>>
    /\ argv = <<>>
    /\ disk = <<>>
    /\ loaded = <<>>
    /\ result = "none"
    /\ stdout = <<>>
    /\ stderr = <<>>
    /\ exit_code = 0

SummaryLines ==
    /\ pc = "format"
    /\ pc' = "formatted"
    /\ IF col_widths_raises(content)
       THEN /\ result' = "ValueError"
            /\ stdout' = stdout
       ELSE /\ result' = "lines"
            /\ stdout' = summary_lines(content)
    /\ UNCHANGED <<tool, argv, disk, loaded, content, stderr, exit_code>>

NextFormat == SummaryLines

SpecFormat == InitFormat /\ [][NextFormat]_vars

Reorderings(n) == {p \in [1..n -> 1..n] : \A i, j \in 1..n : p[i] = p[j] => i = j}

Permuted(c, p) == [j \in 1..Len(c) |-> c[p[j]]]

OwnWidths(k) == {bounds_and_count_widths(content[i])[k] : i \in 1..Len(content)}

\* C9: for a non-empty Content list col_widths is the element-wise maximum
\* of the items' own width triples; permuting the list changes neither the
\* triple nor the lines, which follow the order of the list, each line
\* depending only on its item and the triple.
C9_WidthsAreMaxAndOrderIndependent ==
    (pc = "formatted" /\ content # <<>>) =>
        LET w == col_widths(content) IN
        /\ \A k \in 1..3 : /\ w[k] \in OwnWidths(k)
                           /\ \A x \in OwnWidths(k) : x <= w[k]
        /\ Len(stdout) = Len(content)
        /\ \A i \in 1..Len(content) :
               stdout[i] = formatted_str(content[i], w[1], w[2], w[3])
        /\ \A p \in Reorderings(Len(content)) :
               /\ col_widths(Permuted(content, p)) = w
               /\ \A j \in 1..Len(content) :
                      summary_lines(Permuted(content, p))[j] = stdout[p[j]]

\* A list whose items differ in all three widths and whose widest start,
\* end and count are not those of the first item.
C9_Witness ==
    /\ pc = "formatted"
    /\ Len(content) = 3
    /\ \A k \in 1..3 : Cardinality(OwnWidths(k)) > 1
    /\ \A k \in 1..3 : bounds_and_count_widths(content[1])[k] < col_widths(content)[k]
    /\ Len(stdout) = 3

\* The name pattern with a zero-padded placeholder of the given width.
NameWithPlaceholder(c, width) ==
    c.seq.basename \o <<"%", "0">> \o Str(width) \o <<"d">> \o c.seq.ext

EndsWith(line, tail) ==
    /\ Len(tail) <= Len(line)
    /\ SubSeq(line, Len(line) - Len(tail) + 1, Len(line)) = tail

\* C10: every line rendered for a Run or Gap shows the name pattern with a
\* zero-padded printf placeholder whose width is the global max_end_width.
C10_PlaceholderIsMaxEndWidth ==
    (pc = "formatted" /\ result = "lines") =>
        \A i \in 1..Len(content) :
            content[i].kind = "SequencedFrames" =>
                EndsWith(stdout[i],
                         NameWithPlaceholder(content[i], col_widths(content)[2])
                         \o <<ENDC>>)

(***************************************************************************)
(* Spec: one invocation of the frames command on a directory.              *)
(***************************************************************************)
FlagForms == {"absent", "yes", "no"}

Modes == {"none", "uniqueness_check", "frame_field_width", "first", "last"}

Substrings == { <<>>, << <<"a", "b">>, <<"b">> >> }

CommandLines ==
    [dir : {"dir"}, sequences : FlagForms, gaps : FlagForms, debris : FlagForms,
     substrs : Substrings, mode : Modes]

\* The base names and extensions found on disk.
DiskPatterns == { << <<"a">>, <<".", "e", "x", "r">> >>,
                  << <<"a">>, <<".", "t", "x", "t">> >>,
                  << <<"a", "b">>, <<".", "t", "x", "t">> >> }

DiskFrameSets == { {}, {FrameBase}, {FrameBase, FrameBase + 2, FrameBase + 3} }

DiskSeqs == {FileSequence(k[1], k[2], S) : k \in DiskPatterns, S \in DiskFrameSets}

\* findSequencesOnDisk: one sequence per base name and extension, in no
\* particular order.
Directories ==
    UNION { {d \in [1..n -> DiskSeqs] :
                \A i, j \in 1..n :
                    (d[i].basename = d[j].basename /\ d[i].ext = d[j].ext) => i = j}
            : n \in 0..MaxGroups }

NoCommandLine ==
    [dir |-> "None", sequences |-> "absent", gaps |-> "absent", debris |-> "absent",
     substrs |-> <<>>, mode |-> "none"]

Init ==
    /\ pc = "constructed"
    /\ tool = FramesTool
    /\ argv = NoCommandLine
    /\ disk \in Directories
    /\ loaded = <<>>
    /\ content = <<>>
    /\ result = "none"
    /\ stdout = <<>>
    /\ stderr = <<>>
    /\ exit_code = 0

ParseArgs ==
    /\ pc = "constructed"
    /\ pc' = "parsed"
    /\ \E args \in CommandLines :
           /\ argv' = args
           /\ tool' = parse_args(args, tool)
    /\ UNCHANGED <<disk, loaded, content, result, stdout, stderr, exit_code>>

\* run taking one surviving name pattern, not one surviving item, for a
\* unique sequence.
Run_counting_patterns ==
    /\ pc = "parsed"
    /\ pc' = "returned"
    /\ LET all == load_from_dir(disk)
           kept == Filter(tool, all)
       IN  /\ loaded' = all
           /\ content' = kept
           /\ IF Cardinality({kept[i].seq.basename : i \in 1..Len(kept)}) = 1
              THEN IF tool.print_first \/ tool.print_last
                   THEN \* frame_set.split: neither FrameSet nor None has it
                        /\ result' = "AttributeError"
                        /\ stdout' = stdout
                   ELSE /\ result' = "True"
                        /\ stdout' = IF tool.print_frame_field_width
                                     THEN Append(stdout,
                                                 Str(bounds_and_count_widths(kept[1])[2]))
                                     ELSE stdout
              ELSE IF tool.uniqueness_check
              THEN /\ result' = "False"
                   /\ stdout' = stdout
              ELSE IF col_widths_raises(kept)
                   THEN /\ result' = "ValueError"
                        /\ stdout' = stdout
                   ELSE /\ result' = "True"
                        /\ stdout' = stdout \o summary_lines(kept)
    /\ UNCHANGED <<tool, argv, disk, stderr, exit_code>>

\* FramesTool.run: its return value, or the exception it ends with, and the
\* lines it prints.
Run ==
    /\ pc = "parsed"
    /\ pc' = "returned"
    /\ LET all == load_from_dir(disk)
           kept == Filter(tool, all)
       IN  /\ loaded' = all
           /\ content' = kept
           /\ IF Len(kept) = 1
              THEN IF tool.print_first \/ tool.print_last
                   THEN \* frame_set.split: neither FrameSet nor None has it
                        /\ result' = "AttributeError"
                        /\ stdout' = stdout
                   ELSE /\ result' = "True"
                        /\ stdout' = IF tool.print_frame_field_width
                                     THEN Append(stdout,
                                                 Str(bounds_and_count_widths(kept[1])[2]))
                                     ELSE stdout
              ELSE IF tool.uniqueness_check
              THEN /\ result' = "False"
                   /\ stdout' = stdout
              ELSE IF col_widths_raises(kept)
                   THEN /\ result' = "ValueError"
                        /\ stdout' = stdout
                   ELSE /\ result' = "True"
                        /\ stdout' = stdout \o summary_lines(kept)
    /\ UNCHANGED <<tool, argv, disk, stderr, exit_code>>

\* The status exit() is called with after tool.run() returned.
exit_status(success) == IF success THEN 0 ELSE 0

\* frames_cmd_top_level from the try on: print 'done' and exit, report a
\* RuntimeError, or die of an exception the handler does not name.
Exit ==
    /\ pc = "returned"
    /\ pc' = "exited"
    /\ CASE result \in {"True", "False"} ->
              /\ stdout' = Append(stdout, <<"d", "o", "n", "e">>)
              /\ stderr' = stderr
              /\ exit_code' = exit_status(result = "True")
         [] result = "RuntimeError" ->
              /\ stdout' = stdout
              /\ stderr' = Append(stderr, <<"error in frames command: ...">>)
              /\ exit_code' = 1
         [] OTHER ->
              /\ stdout' = stdout
              /\ stderr' = stderr \o Traceback(result)
              /\ exit_code' = 1
    /\ UNCHANGED <<tool, argv, disk, loaded, content, result>>

Next == ParseArgs \/ Run \/ Exit

Spec == Init /\ [][Next]_vars

NoPrefixFilter == tool.sequence_left_substrings = <<>>

HasVariant(cs, v) == \E i \in 1..Len(cs) : cs[i].variant = v

\* C3: without a name-prefix filter and with include_gaps off, no Gap item
\* survives filtering, whatever include_sequences and include_debris are.
C3_NoGapSurvivesWhenGapsOff ==
    (pc \in {"returned", "exited"} /\ NoPrefixFilter /\ ~tool.include_gaps) =>
        ~HasVariant(content, "GAP")

StartsWithNone(c, prefixes) ==
    \A i \in 1..Len(prefixes) : ~startswith(c.seq.basename, prefixes[i])

\* C4: with a non-empty set of name prefixes, an item is kept if and only if
\* its base name starts with none of them, whatever the three include flags
\* are: the surviving list is the loaded list restricted to those items.
C4_PrefixFilterOverridesFlags ==
    (pc \in {"returned", "exited"} /\ ~NoPrefixFilter) =>
        content = SelectSeq(loaded,
                            LAMBDA c : StartsWithNone(c, tool.sequence_left_substrings))

\* A run with prefixes that drop one loaded item and keep a Gap and a
\* non-container item although all three include flags are off.
C4_Witness ==
    /\ pc = "returned"
    /\ ~NoPrefixFilter
    /\ ~tool.include_sequences /\ ~tool.include_gaps /\ ~tool.include_debris
    /\ Len(content) < Len(loaded)
    /\ HasVariant(content, "GAP")
    /\ \E i \in 1..Len(content) : ~content[i].is_container

\* C5: in uniqueness-check mode the exit code is 0 when exactly one item
\* survives filtering and non-zero when more than one survives.
C5_UniquenessExitCode ==
    (pc = "exited" /\ tool.uniqueness_check) =>
        /\ Len(content) = 1 => exit_code = 0
        /\ Len(content) > 1 => exit_code # 0

ScalarQuery ==
    tool.print_first \/ tool.print_last \/ tool.print_frame_field_width

\* C6: a scalar field query on an empty filtered list ends as the reported
\* failure of the command: nothing on standard output, one diagnostic line
\* on standard error, a non-zero exit code, through the handled error path.
C6_EmptyQueryIsReportedFailure ==
    (pc = "exited" /\ ScalarQuery /\ content = <<>>) =>
        /\ stdout = <<>>
        /\ Len(stderr) = 1
        /\ exit_code # 0
        /\ result = "RuntimeError"

NoQueryMode == ~ScalarQuery /\ ~tool.uniqueness_check

\* C7: with no query mode, a directory of which no item survives filtering
\* gives an empty report: run returns success and prints no line.
C7_EmptyReportSucceeds ==
    (pc = "returned" /\ NoQueryMode /\ content = <<>>) =>
        /\ result = "True"
        /\ stdout = <<>>

\* C8: with only the directory on the command line the flags in effect
\* when run starts are include_sequences on, include_gaps and include_debris
\* off.
C8_DefaultFlags ==
    (pc = "parsed" /\ argv.sequences = "absent" /\ argv.gaps = "absent"
                   /\ argv.debris = "absent") =>
        /\ tool.include_sequences
        /\ ~tool.include_gaps
        /\ ~tool.include_debris

Colors == {OKBLUE, OKGREEN, WARNING, FAIL, ENDC}

\* The number of characters of a line before its styled name pattern.
NamePrefixLen(line) ==
    (CHOOSE i \in 1..Len(line) :
        /\ line[i] \in Colors
        /\ \A j \in 1..(i - 1) : line[j] \notin Colors) - 1

\* What "start-end| count " occupies for given column widths.
NumericColumns(w) == w[1] + 1 + w[2] + 2 + w[3] + 1

\* C11: in the lines of one report the styled name pattern begins at the
\* same column on every line: an UnsequencedFrame or Debris line holds as
\* many blanks there as the start-end and count columns of a Run or Gap
\* line take for the same global widths.
C11_NameColumnAligned ==
    (pc = "formatted" /\ result = "lines") =>
        LET w == col_widths(content) IN
        /\ \A i, j \in 1..Len(stdout) :
               NamePrefixLen(stdout[i]) = NamePrefixLen(stdout[j])
        /\ \A i \in 1..Len(stdout) :
               /\ NamePrefixLen(stdout[i]) = NumericColumns(w)
               /\ content[i].kind # "SequencedFrames" =>
                      \A k \in 1..NamePrefixLen(stdout[i]) : stdout[i][k] = " "

\* A report holding a Run or Gap, an UnsequencedFrame and a Debris line.
C11_Witness ==
    /\ pc = "formatted"
    /\ result = "lines"
    /\ \A kind \in {"SequencedFrames", "UnsequencedFrame", "Debris"} :
           \E i \in 1..Len(content) : content[i].kind = kind
    /\ Len(stdout) = Len(content)

\* C12: with exactly one surviving item and the first-frame (last-frame)
\* query, run prints only that item's start (end) frame number, no report
\* line, and returns success, also for a Run whose start equals its end.
C12_SingleItemFirstLast ==
    (pc = "returned" /\ Len(content) = 1 /\ content[1].kind = "SequencedFrames") =>
        /\ tool.print_first =>
               (result = "True" /\ stdout = <<Str(bounds(content[1])[1])>>)
        /\ tool.print_last =>
               (result = "True" /\ stdout = <<Str(bounds(content[1])[2])>>)

NotGap(c) == ~(c.kind = "SequencedFrames" /\ c.variant = "GAP")

\* C14: without a name-prefix filter include_gaps matters for Gap items
\* only: keep answers the same with include_gaps on and off for every Run,
\* UnsequencedFrame and Debris item, whatever the other two flags are.
C14_GapsFlagTouchesGapsOnly ==
    (pc = "returned" /\ NoPrefixFilter) =>
        \A i \in 1..Len(loaded) :
            NotGap(loaded[i]) =>
                keep([tool EXCEPT !.include_gaps = TRUE], loaded[i])
                    = keep([tool EXCEPT !.include_gaps = FALSE], loaded[i])

\* The loaded items that carry the base name and extension of a group.
ItemsOf(d) ==
    SelectSeq(loaded, LAMBDA c : c.seq.basename = d.basename /\ c.seq.ext = d.ext)

Numbered(d) == d.frameSet.order # <<>>

ContainerExtension(d) == d.ext \in KNOWN_IMAGE_ESSENCE_CONTAINER_EXTENSIONS

\* C13: load_from_dir puts every group into exactly one case: a group with
\* frame numbers gives only Run/Gap items with the group's name and container
\* flag, a group without frame numbers and with a container extension gives
\* one UnsequencedFrame, any other group one Debris that is no container;
\* the list is ordered by the groups' names and, within a group, by start.
C13_LoadClassifiesAndOrders ==
    pc \in {"returned", "exited"} =>
        /\ \A i \in 1..Len(loaded) :
               \E g \in 1..Len(disk) : /\ loaded[i].seq.basename = disk[g].basename
                                        /\ loaded[i].seq.ext = disk[g].ext
        /\ \A g \in 1..Len(disk) :
               LET d == disk[g]
                   items == ItemsOf(d)
               IN  IF Numbered(d)
                   THEN /\ Len(items) >= 1
                        /\ \A i \in 1..Len(items) :
                               /\ items[i].kind = "SequencedFrames"
                               /\ items[i].variant \in {"RUN", "GAP"}
                               /\ items[i].is_container = ContainerExtension(d)
                        /\ \A i \in 2..Len(items) :
                               bounds(items[i - 1])[1] < bounds(items[i])[1]
                   ELSE IF ContainerExtension(d)
                   THEN /\ Len(items) = 1
                        /\ items[1].kind = "UnsequencedFrame"
                   ELSE /\ Len(items) = 1
                        /\ items[1].kind = "Debris"
                        /\ ~items[1].is_container
        /\ \A i \in 2..Len(loaded) :
               ~StrLess(loaded[i].seq.basename, loaded[i - 1].seq.basename)

\* A directory found in an order other than that of the names, holding a
\* numbered group with a gap and a group that is debris.
C13_Witness ==
    /\ pc = "returned"
    /\ Len(disk) = 2
    /\ StrLess(disk[2].basename, disk[1].basename)
    /\ HasVariant(loaded, "GAP")
    /\ \E i \in 1..Len(loaded) : loaded[i].kind = "Debris"

\* C15: in uniqueness-check mode run prints nothing and returns success if
\* and only if exactly one Content item survives filtering; no survivor, or
\* one name pattern surviving as two or more items, is a failure.
C15_UniquenessCountsItems ==
    (pc = "returned" /\ tool.uniqueness_check) =>
        /\ stdout = <<>>
        /\ result \in {"True", "False"}
        /\ result = "True" <=> Len(content) = 1

\* A uniqueness check on a directory of one name pattern whose Runs and Gap
\* all survive: more than one item, and run returned False.
C15_Witness ==
    /\ pc = "returned"
    /\ tool.uniqueness_check
    /\ Len(disk) = 1
    /\ Len(content) >= 2
    /\ HasVariant(content, "GAP")
    /\ result = "False"

====
